---- MODULE Spec2Model ----
(***************************************************************************)
(* Model of calo_logs_analyzer: build_ledger (compute.py),                 *)
(* detect_anomalies (anomalies.py) and parse_transaction_block (parser.py).*)
(*                                                                         *)
(* Monetary values are exact decimals, held as integers counted in units   *)
(* of 10^-Prec.  The code takes every numeric field through                *)
(* pd.to_numeric (float64) and then Decimal(str(x)); str of a float is its *)
(* shortest round-tripping decimal, so a decimal of at most 15 significant *)
(* digits comes back unchanged, while a missing key, None and an           *)
(* unparsable string all become NaN and then None.                         *)
(***************************************************************************)
EXTENDS Integers, Sequences, FiniteSets, TLC

VARIABLES
    events,          \* the list handed to build_ledger
    decimals,        \* build_ledger's decimals
    tolerance,       \* build_ledger's tolerance
    mad_threshold,   \* detect_anomalies' mad_threshold, in tenths
    dup_time_window, \* detect_anomalies' dup_time_window, in seconds
    pc,              \* "input", "ledger", "done" or "raised"; "lines" and
                     \* "parsed" around parse_transaction_block
    ledger,          \* the rows of the frame build_ledger returned
    ledgerColumns,   \* its columns
    anomalies,       \* the rows of the frame detect_anomalies returned
    anomalyColumns,  \* its columns
    lines,           \* the lines handed to parse_transaction_block
    tx               \* the dict it returned, as its set of items

vars == <<events, decimals, tolerance, mad_threshold, dup_time_window, pc,
          ledger, ledgerColumns, anomalies, anomalyColumns, lines, tx>>

config == <<decimals, tolerance, mad_threshold, dup_time_window>>

parsing == <<lines, tx>>

\* Digits after the decimal point that the model's integers resolve.
Prec == 5

\* Longest event list an execution builds.
MaxEvents == 2

\* Longest event list of the executions that exercise the ordering.
MaxSortEvents == 3

\* Longest event list of the executions that exercise the anomaly passes.
MaxAnomEvents == 3

RECURSIVE Pow10(_)
Pow10(n) == IF n <= 0 THEN 1 ELSE 10 * Pow10(n - 1)

Abs(x) == IF x < 0 THEN -x ELSE x

\* n thousandths, and n hundred-thousandths, in the model's units
Milli(n) == n * Pow10(Prec - 3)
Fine(n) == n * Pow10(Prec - 5)

-----------------------------------------------------------------------------
(* Values of a cell.                                                       *)

\* a key missing from the event dict: NaN in the DataFrame
AbsentStr == "<absent>"
\* a key present with value None
NoneStr == "<none>"
\* an integer key (userId, id, messageId, timestamp) that is missing
AbsentKey == 0

RawNum(x) == [kind |-> "num", v |-> x]
RawAbsent == [kind |-> "absent", v |-> 0]
RawNull == [kind |-> "null", v |-> 0]
RawBad == [kind |-> "bad", v |-> 0]

\* a float64 cell after pd.to_numeric
Float(x) == [kind |-> "float", v |-> x]
FloatNaN == [kind |-> "nan", v |-> 0]
PyNone == [kind |-> "none", v |-> 0]

\* Optional[Decimal]
Dec(x) == [known |-> TRUE, v |-> x]
NoDec == [known |-> FALSE, v |-> 0]

-----------------------------------------------------------------------------
(* Events, as parse_logs emits them.                                       *)

SyncEvent(u, ts, i, m, typ, cur, amt, vt, ob, nb) ==
    [timestamp |-> ts, messageId |-> m, eventType |-> "BALANCE_SYNC",
     userId |-> u, id |-> i, type |-> typ, source |-> "PAYMENT",
     action |-> "ADD", currency |-> cur, amount |-> amt, vat |-> vt,
     oldBalance |-> ob, newBalance |-> nb]

SkipEvent(ts, m) ==
    [timestamp |-> ts, messageId |-> m,
     eventType |-> "SKIP_CREATE_SUBSCRIPTION",
     userId |-> AbsentKey, id |-> AbsentKey, type |-> AbsentStr,
     source |-> AbsentStr, action |-> AbsentStr, currency |-> AbsentStr,
     amount |-> RawAbsent, vat |-> RawAbsent, oldBalance |-> RawAbsent,
     newBalance |-> RawAbsent]

KeyFields == {"timestamp", "messageId", "userId", "id"}
StrFields == {"eventType", "type", "source", "action", "currency"}
NumFields == {"amount", "vat", "oldBalance", "newBalance"}

\* the keys of one event dict
EventKeys(e) ==
    {f \in KeyFields : e[f] # AbsentKey}
      \cup {f \in StrFields : e[f] # AbsentStr}
      \cup {f \in NumFields : e[f].kind # "absent"}

\* pd.DataFrame(events).columns
FrameColumns(evs) == UNION {EventKeys(evs[i]) : i \in 1..Len(evs)}

-----------------------------------------------------------------------------
(* build_ledger                                                            *)

DefaultCurrencyDecimals == [c \in {"SAR", "BHD"} |-> IF c = "SAR" THEN 3 ELSE 4]

Upper(s) ==
    CASE s = "sar" -> "SAR"
      [] s = "bhd" -> "BHD"
      [] s = "usd" -> "USD"
      [] s = "credit" -> "CREDIT"
      [] s = "debit" -> "DEBIT"
      [] OTHER -> s

\* row.get(col) of a numeric column, after pd.to_numeric(errors="coerce")
to_numeric(cols, col, raw) ==
    IF col \notin cols THEN PyNone
    ELSE IF raw.kind = "num" THEN Float(raw.v) ELSE FloatNaN

\* row.get(col) of a text column
row_get(cols, col, s) ==
    IF col \notin cols THEN NoneStr ELSE s

get_decimals(cur, dflt) ==
    LET c == Upper(IF cur = NoneStr THEN "" ELSE cur)
    IN  IF c \in DOMAIN DefaultCurrencyDecimals
        THEN DefaultCurrencyDecimals[c] ELSE dflt

\* to_dec with an unknown cell taken as zero
to_dec_nan_zero(x) ==
    IF x.kind = "float" THEN Dec(x.v) ELSE Dec(0)

to_dec(x) ==
    IF x.kind = "float" THEN Dec(x.v) ELSE NoDec

\* quantize with ROUND_HALF_EVEN
quantize_half_even(x, dps) ==
    LET q == Pow10(Prec - dps)
        n0 == Abs(x) \div q
        rem == Abs(x) - n0 * q
        n == IF 2 * rem > q \/ (2 * rem = q /\ n0 % 2 = 1) THEN n0 + 1 ELSE n0
    IN  IF x < 0 THEN -(n * q) ELSE n * q

\* Decimal.quantize(Decimal("1").scaleb(-dps), rounding=ROUND_HALF_UP)
quantize(x, dps) ==
    LET q == Pow10(Prec - dps)
        n == (Abs(x) + (q \div 2)) \div q
    IN  IF x < 0 THEN -(n * q) ELSE n * q

\* x or Decimal(0)
OrZero(d) == IF d.known THEN d.v ELSE 0

\* str(row.get("type")).upper()
TypeOf(cols, e) ==
    LET t == row_get(cols, "type", e.type)
    IN  IF t = NoneStr THEN "NONE" ELSE IF t = AbsentStr THEN "NAN" ELSE Upper(t)

\* expected_new with the vat of a DEBIT taken off as well
expected_new_vat_off(typ, old_b, amt, v) ==
    IF typ = "CREDIT" THEN Dec(old_b + (amt - v))
    ELSE IF typ = "DEBIT" THEN Dec(old_b - (amt + v))
    ELSE NoDec

expected_new(typ, old_b, amt, v) ==
    IF typ = "CREDIT" THEN Dec(old_b + (amt - v))
    ELSE IF typ = "DEBIT" THEN Dec(old_b - (amt - v))
    ELSE NoDec

quantize_opt(d, dps) == IF d.known THEN Dec(quantize(d.v, dps)) ELSE NoDec

\* balance_mismatch with diff >= tolerance
balance_mismatch_at_tolerance(exp_q, new_q, tol) ==
    IF exp_q.known /\ new_q.known
    THEN Abs(exp_q.v - new_q.v) >= tol
    ELSE FALSE

balance_mismatch(exp_q, new_q, tol) ==
    IF exp_q.known /\ new_q.known
    THEN Abs(exp_q.v - new_q.v) > tol
    ELSE FALSE

\* overdraft_reason without the third if: the later reason stands
overdraft_reason_last_wins(exp_q, new_q) ==
    IF new_q.known /\ new_q.v < 0 THEN "actual<0"
    ELSE IF exp_q.known /\ exp_q.v < 0 THEN "expected<0"
    ELSE NoneStr

overdraft_reason(exp_q, new_q) ==
    LET expected_neg == exp_q.known /\ exp_q.v < 0
        actual_neg == new_q.known /\ new_q.v < 0
    IN  IF expected_neg /\ actual_neg
        THEN "expected balance < 0, actual balance < 0"
        ELSE IF actual_neg THEN "actual<0"
        ELSE IF expected_neg THEN "expected<0"
        ELSE NoneStr

\* new_balance_filled with the expected balance first
new_balance_filled_expected_first(exp_q, new_q) ==
    IF exp_q.known THEN exp_q ELSE IF new_q.known THEN new_q ELSE NoDec

new_balance_filled(exp_q, new_q) ==
    IF new_q.known THEN new_q ELSE IF exp_q.known THEN exp_q ELSE NoDec

\* suggested_adjustment as actual - expected
suggested_adjustment_reversed(mismatch, exp_q, new_q, dps) ==
    IF mismatch /\ exp_q.known /\ new_q.known
    THEN quantize(new_q.v - exp_q.v, dps)
    ELSE 0

suggested_adjustment(mismatch, exp_q, new_q, dps) ==
    IF mismatch /\ exp_q.known /\ new_q.known
    THEN quantize(exp_q.v - new_q.v, dps)
    ELSE 0

\* the cur of one row: row.get("currency") or ""
RowCurrency(cols, e) ==
    LET c == row_get(cols, "currency", e.currency)
    IN  IF c = NoneStr THEN "" ELSE c

\* get_decimals raises AttributeError on a NaN currency cell: (nan or "") is
\* nan, and a float has no upper()
row_raises(cols, e) == RowCurrency(cols, e) = AbsentStr

\* one pass of the loop over tx.iterrows(): the event's cells and the values
\* appended to the eight lists
ledger_row(cols, e, index, dflt, tol) ==
    LET dps == get_decimals(RowCurrency(cols, e), dflt)
        amount == to_dec(to_numeric(cols, "amount", e.amount))
        vat == to_dec(to_numeric(cols, "vat", e.vat))
        old_bal == to_dec(to_numeric(cols, "oldBalance", e.oldBalance))
        new_bal == to_dec(to_numeric(cols, "newBalance", e.newBalance))
        exp_new == expected_new(TypeOf(cols, e), OrZero(old_bal),
                                OrZero(amount), OrZero(vat))
        exp_new_q == quantize_opt(exp_new, dps)
        new_bal_q == quantize_opt(new_bal, dps)
        mismatch == balance_mismatch(exp_new_q, new_bal_q, tol)
        reason == overdraft_reason(exp_new_q, new_bal_q)
    IN  [index |-> index,
         timestamp |-> e.timestamp, messageId |-> e.messageId,
         eventType |-> e.eventType, userId |-> e.userId, id |-> e.id,
         type |-> e.type, source |-> e.source, action |-> e.action,
         currency |-> e.currency,
         amount |-> to_numeric(cols, "amount", e.amount),
         vat |-> to_numeric(cols, "vat", e.vat),
         oldBalance |-> to_numeric(cols, "oldBalance", e.oldBalance),
         newBalance |-> to_numeric(cols, "newBalance", e.newBalance),
         expectedNewBalance |-> exp_new_q,
         balanceMismatch |-> mismatch,
         overdraft |-> (reason # NoneStr),
         overdraftReason |-> reason,
         suggestedAdjustment |->
             suggested_adjustment(mismatch, exp_new_q, new_bal_q, dps),
         newBalanceFilled |-> new_balance_filled(exp_new_q, new_bal_q),
         oldBalanceDec |->
             IF old_bal.known THEN Dec(quantize(OrZero(old_bal), dps))
             ELSE NoDec]

\* the sort key without messageId
KeyLess_no_message(a, b) ==
    \/ a.userId < b.userId
    \/ /\ a.userId = b.userId
       /\ \/ a.timestamp < b.timestamp
          \/ a.timestamp = b.timestamp /\ a.id < b.id

\* tx.sort_values(["userId", "timestamp", "id", "messageId"]): ascending,
\* rows of equal key keep their order
KeyLess(a, b) ==
    \/ a.userId < b.userId
    \/ /\ a.userId = b.userId
       /\ \/ a.timestamp < b.timestamp
          \/ /\ a.timestamp = b.timestamp
             /\ \/ a.id < b.id
                \/ a.id = b.id /\ a.messageId < b.messageId

RECURSIVE InsertRow(_, _)
InsertRow(sorted, r) ==
    IF sorted = <<>> THEN <<r>>
    ELSE IF KeyLess(r, sorted[Len(sorted)])
         THEN Append(InsertRow(SubSeq(sorted, 1, Len(sorted) - 1), r),
                     sorted[Len(sorted)])
         ELSE Append(sorted, r)

RECURSIVE sort_values(_)
sort_values(rows) ==
    IF rows = <<>> THEN <<>>
    ELSE InsertRow(sort_values(SubSeq(rows, 1, Len(rows) - 1)), rows[Len(rows)])

\* shift(1) over the whole table, without the groupby
prev_filled_ungrouped(rows, i) ==
    IF i = 1 THEN NoDec ELSE rows[i - 1].newBalanceFilled

\* tx.groupby("userId")["_newBalanceFilled"].shift(1)
prev_filled(rows, i) ==
    LET before == {j \in 1..(i - 1) : rows[j].userId = rows[i].userId}
    IN  IF before = {} THEN NoDec
        ELSE rows[CHOOSE j \in before : \A k \in before : k <= j].newBalanceFilled

cont_break(ob_dec, prev_nf, tol) ==
    IF ~ob_dec.known \/ ~prev_nf.known THEN FALSE
    ELSE Abs(ob_dec.v - prev_nf.v) > tol

DerivedColumns ==
    {"expectedNewBalance", "balanceMismatch", "overdraft", "overdraftReason",
     "suggestedAdjustment", "prevNewBalanceFilled", "continuityBreak"}

LedgerFields ==
    {"index", "timestamp", "messageId", "eventType", "userId", "id", "type",
     "source", "action", "currency", "amount", "vat", "oldBalance",
     "newBalance"} \cup DerivedColumns

\* the rows of tx = df[df["eventType"] == "BALANCE_SYNC"], with the lists of
\* the loop attached
RECURSIVE tx_rows(_, _, _, _, _)
tx_rows(evs, n, cols, dflt, tol) ==
    IF n = 0 THEN <<>>
    ELSE LET rest == tx_rows(evs, n - 1, cols, dflt, tol)
         IN  IF evs[n].eventType = "BALANCE_SYNC"
             THEN Append(rest, ledger_row(cols, evs[n], n, dflt, tol))
             ELSE rest

\* the sorted table with prevNewBalanceFilled and continuityBreak, the
\* temporary columns dropped
finish_rows(rows, tol) ==
    LET sorted == sort_values(rows)
    IN  [i \in 1..Len(sorted) |->
            [f \in LedgerFields |->
                IF f = "prevNewBalanceFilled" THEN prev_filled(sorted, i)
                ELSE IF f = "continuityBreak"
                     THEN cont_break(sorted[i].oldBalanceDec,
                                     prev_filled(sorted, i), tol)
                     ELSE sorted[i][f]]]

\* build_ledger(events, decimals=dflt, tolerance=tol): the rows and columns of
\* the frame it returns, or raised
build_ledger(evs, dflt, tol) ==
    LET cols == FrameColumns(evs)
        rows == tx_rows(evs, Len(evs), cols, dflt, tol)
    IN  IF evs = <<>> \/ rows = <<>>
        THEN [raised |-> FALSE, rows |-> <<>>, columns |-> cols]
        ELSE IF \E i \in 1..Len(evs) :
                    /\ evs[i].eventType = "BALANCE_SYNC"
                    /\ row_raises(cols, evs[i])
             THEN [raised |-> TRUE, rows |-> <<>>, columns |-> {}]
             ELSE [raised |-> FALSE, rows |-> finish_rows(rows, tol),
                   columns |-> cols \cup DerivedColumns]

-----------------------------------------------------------------------------
(* detect_anomalies                                                        *)

\* timestamps count milliseconds
MsPerSecond == 1000

AnomalyColumns ==
    {"timestamp", "userId", "id", "type", "source", "action", "amount",
     "oldBalance", "newBalance", "anomalyType", "details"}

\* columns detect_anomalies reads whatever the rows hold
RequiredColumns ==
    {"timestamp", "userId", "id", "type", "source", "action", "amount",
     "currency"}

\* str.contains("INVALID|INVAILID", case=False)
InvalidActions == {"INVALID_ACTION", "invalid", "INVAILID_OP"}
ContainsInvalid(s) == s \in InvalidActions

\* str.contains("MANUAL", case=False)
ManualSources == {"MANUAL_ADJUST", "manual"}
ContainsManual(s) == s \in ManualSources

\* isna() | (astype(str).str.strip() == "")
IsBlank(s) == s \in {AbsentStr, NoneStr, "", "  "}

IsNaStr(s) == s \in {AbsentStr, NoneStr}

anomaly(row, kind, details) ==
    [timestamp |-> row.timestamp, userId |-> row.userId, id |-> row.id,
     type |-> row.type, source |-> row.source, action |-> row.action,
     amount |-> row.amount, oldBalance |-> row.oldBalance,
     newBalance |-> row.newBalance, anomalyType |-> kind,
     details |-> details]

\* df.sort_values(["userId", "timestamp", "id"])
Key3Less(a, b) ==
    \/ a.userId < b.userId
    \/ /\ a.userId = b.userId
       /\ \/ a.timestamp < b.timestamp
          \/ a.timestamp = b.timestamp /\ a.id < b.id

RECURSIVE InsertRow3(_, _)
InsertRow3(sorted, r) ==
    IF sorted = <<>> THEN <<r>>
    ELSE IF Key3Less(r, sorted[Len(sorted)])
         THEN Append(InsertRow3(SubSeq(sorted, 1, Len(sorted) - 1), r),
                     sorted[Len(sorted)])
         ELSE Append(sorted, r)

RECURSIVE sort_values3(_)
sort_values3(rows) ==
    IF rows = <<>> THEN <<>>
    ELSE InsertRow3(sort_values3(SubSeq(rows, 1, Len(rows) - 1)),
                    rows[Len(rows)])

\* the records of the rows of df whose mask[i] is true, in df's order
RECURSIVE flagged(_, _, _, _, _)
flagged(df, n, mask, kind, details) ==
    IF n = 0 THEN <<>>
    ELSE LET rest == flagged(df, n - 1, mask, kind, details)
         IN  IF mask[n] THEN Append(rest, anomaly(df[n], kind, details))
             ELSE rest

\* the positions of a sorted list of integers, as a sequence
RECURSIVE SortedSeq(_)
SortedSeq(S) ==
    IF S = {} THEN <<>>
    ELSE LET m == CHOOSE x \in S : \A y \in S : x <= y
         IN  <<m>> \o SortedSeq(S \ {m})

\* twice np.nanmedian of the values vals[i], i in I (I not empty)
Median2(vals, I) ==
    LET RECURSIVE Ins(_, _)
        Ins(sq, x) ==
            IF sq = <<>> THEN <<x>>
            ELSE IF x < sq[Len(sq)]
                 THEN Append(Ins(SubSeq(sq, 1, Len(sq) - 1), x), sq[Len(sq)])
                 ELSE Append(sq, x)
        RECURSIVE Srt(_)
        Srt(ix) == IF ix = <<>> THEN <<>>
                   ELSE Ins(Srt(Tail(ix)), vals[Head(ix)])
        sq == Srt(SortedSeq(I))
        n == Len(sq)
    IN  IF n % 2 = 1 THEN 2 * sq[(n + 1) \div 2]
        ELSE sq[n \div 2] + sq[n \div 2 + 1]

\* the members of the (userId, type) group of row i; groupby drops the rows
\* whose key is missing
mad_group(df, i) ==
    IF IsNaStr(df[i].type) THEN {}
    ELSE {j \in 1..Len(df) :
            df[j].userId = df[i].userId /\ df[j].type = df[i].type}

\* spike_mask without the test of mad == 0
mad_spike_zero_mad(df, i, threshold10) ==
    LET G == {j \in mad_group(df, i) : df[j].amount.kind = "float"}
    IN  /\ df[i].amount.kind = "float"
        /\ G # {}
        /\ LET amt == [j \in G |-> df[j].amount.v]
               med2 == Median2(amt, G)
               dev2 == [j \in G |-> Abs(2 * amt[j] - med2)]
               mad4 == Median2(dev2, G)
           IN  20 * dev2[i] >= threshold10 * mad4

\* spike_mask of row i: mad is not 0 or NaN and |amount - median| / mad >=
\* mad_threshold, compared exactly (threshold in tenths)
mad_spike(df, i, threshold10) ==
    LET G == {j \in mad_group(df, i) : df[j].amount.kind = "float"}
    IN  /\ df[i].amount.kind = "float"
        /\ G # {}
        /\ LET amt == [j \in G |-> df[j].amount.v]
               med2 == Median2(amt, G)
               dev2 == [j \in G |-> Abs(2 * amt[j] - med2)]
               mad4 == Median2(dev2, G)
           IN  /\ mad4 # 0
               /\ 20 * dev2[i] >= threshold10 * mad4

\* duplicated(keep="first"): the first occurrence is not marked
dup_id_keep_first(df, i) ==
    \E j \in 1..(i - 1) :
        df[j].userId = df[i].userId /\ df[j].id = df[i].id

\* df.duplicated(subset=["userId", "id"], keep=False)
dup_id(df, i) ==
    \E j \in 1..Len(df) :
        j # i /\ df[j].userId = df[i].userId /\ df[j].id = df[i].id

\* shift(1) within a group: the last of the positions before a row, 0 when
\* there is none
last_of(before) ==
    IF before = {} THEN 0
    ELSE CHOOSE j \in before : \A k \in before : k <= j

\* df.groupby(["userId", "type", "amount"])["timestamp"].shift(1); groupby
\* drops the rows whose key is missing
prev_same_amount(df, i) ==
    IF IsNaStr(df[i].type) \/ df[i].amount.kind # "float" THEN 0
    ELSE last_of({j \in 1..(i - 1) :
                    /\ df[j].userId = df[i].userId
                    /\ df[j].type = df[i].type
                    /\ df[j].amount = df[i].amount})

\* df.groupby("userId")["timestamp"].shift(1)
prev_same_user(df, i) ==
    last_of({j \in 1..(i - 1) : df[j].userId = df[i].userId})

\* rapid_mask with a gap below dup_time_window only
rapid_below_window(df, i, window) ==
    LET p == prev_same_amount(df, i)
    IN  /\ df[i].type = "DEBIT"
        /\ ContainsManual(df[i].source)
        /\ p # 0
        /\ df[i].timestamp - df[p].timestamp < window * MsPerSecond

rapid(df, i, window) ==
    LET p == prev_same_amount(df, i)
    IN  /\ df[i].type = "DEBIT"
        /\ ContainsManual(df[i].source)
        /\ p # 0
        /\ df[i].timestamp - df[p].timestamp <= window * MsPerSecond

\* gap_mask with gapSeconds <= 1
burst_within_second(df, i) ==
    LET p == prev_same_user(df, i)
    IN  p # 0 /\ df[i].timestamp - df[p].timestamp <= MsPerSecond

burst(df, i) ==
    LET p == prev_same_user(df, i)
    IN  p # 0 /\ df[i].timestamp - df[p].timestamp < MsPerSecond

\* nunique counted over the whole frame, without the groupby
mixed_currency_any_user(df, i) ==
    \E j, k \in 1..Len(df) :
        /\ ~IsNaStr(df[j].currency) /\ ~IsNaStr(df[k].currency)
        /\ df[j].currency # df[k].currency

mixed_currency(df, i) ==
    \E j, k \in 1..Len(df) :
        /\ df[j].userId = df[i].userId /\ df[k].userId = df[i].userId
        /\ ~IsNaStr(df[j].currency) /\ ~IsNaStr(df[k].currency)
        /\ df[j].currency # df[k].currency

\* anomalies_df.sort_values("timestamp"), records of one instant in the order
\* they were appended
RECURSIVE InsertByTimestamp(_, _)
InsertByTimestamp(sorted, r) ==
    IF sorted = <<>> THEN <<r>>
    ELSE IF r.timestamp < sorted[Len(sorted)].timestamp
         THEN Append(InsertByTimestamp(SubSeq(sorted, 1, Len(sorted) - 1), r),
                     sorted[Len(sorted)])
         ELSE Append(sorted, r)

\* the records left in the order the passes appended them
append_order(rows) == rows

RECURSIVE sort_by_timestamp(_)
sort_by_timestamp(rows) ==
    IF rows = <<>> THEN <<>>
    ELSE InsertByTimestamp(sort_by_timestamp(SubSeq(rows, 1, Len(rows) - 1)),
                           rows[Len(rows)])

\* the records of the nine passes, in the order the code appends them
anomaly_list(df, threshold10, window) ==
    LET n == Len(df)
        I == 1..n
    IN  flagged(df, n, [i \in I |-> ContainsInvalid(df[i].action)],
                "InvalidAction", "")
        \o flagged(df, n, [i \in I |-> mad_spike(df, i, threshold10)],
                   "MADSpike", "")
        \o flagged(df, n, [i \in I |-> dup_id(df, i)], "DuplicateTxId", "")
        \o flagged(df, n, [i \in I |-> IsBlank(df[i].type)],
                   "MissingField", "type")
        \o flagged(df, n, [i \in I |-> IsBlank(df[i].source)],
                   "MissingField", "source")
        \o flagged(df, n, [i \in I |-> IsBlank(df[i].action)],
                   "MissingField", "action")
        \o flagged(df, n, [i \in I |-> rapid(df, i, window)],
                   "RapidManualDeduction", "")
        \o flagged(df, n, [i \in I |-> df[i].continuityBreak],
                   "ContinuityBreak", "")
        \o flagged(df, n, [i \in I |-> df[i].balanceMismatch],
                   "BalanceMismatch", "")
        \o flagged(df, n, [i \in I |-> burst(df, i)], "Burst", "")
        \o flagged(df, n, [i \in I |-> mixed_currency(df, i)],
                   "CurrencyMismatch", "")

\* detect_anomalies(ledger, mad_threshold, dup_time_window): the records and
\* columns of the frame it returns, or raised (KeyError on a column the
\* ledger does not have)
detect_anomalies(rows, columns, threshold10, window) ==
    IF rows = <<>>
    THEN [raised |-> FALSE, rows |-> <<>>, columns |-> AnomalyColumns]
    ELSE LET found == anomaly_list(sort_values3(rows), threshold10, window)
         IN  IF ~(RequiredColumns \subseteq columns)
             THEN [raised |-> TRUE, rows |-> <<>>, columns |-> {}]
             ELSE IF found = <<>>
             THEN [raised |-> FALSE, rows |-> <<>>, columns |-> AnomalyColumns]
             ELSE IF \E k \in 1..Len(found) :
                        /\ found[k].anomalyType # "MissingField"
                        /\ ~({"oldBalance", "newBalance"} \subseteq columns)
             THEN [raised |-> TRUE, rows |-> <<>>, columns |-> {}]
             ELSE [raised |-> FALSE, rows |-> sort_by_timestamp(found),
                   columns |-> AnomalyColumns]

-----------------------------------------------------------------------------
(* The pipeline of run_analysis: a caller builds the event list, then      *)
(* build_ledger, then detect_anomalies on its result.                      *)

DefaultDecimals == 2
DefaultTolerance == Milli(5)
DefaultMadThreshold == 60
DefaultDupTimeWindow == 60

\* Events of user 1 at two instants and of user 2 at one, with the cells
\* that decide the continuity of a chain: type and newBalance known or not
\* (the filled balance is the reported one, the expected one, or unknown),
\* oldBalance unknown or a half cent beside the balance before it, at two and
\* at three places.
ChainEvents ==
    {SyncEvent(k[1], k[2], 1, 1, typ, oc[2], RawNum(Milli(10)), RawNull,
               oc[1], nb) :
        k \in {<<1, 1000>>, <<1, 2000>>, <<2, 1000>>},
        typ \in {"CREDIT", NoneStr},
        oc \in {<<RawNull, "USD">>, <<RawNum(Milli(15)), "USD">>,
                <<RawNum(Milli(15)), "SAR">>},
        nb \in {RawNull, RawNum(Milli(10))}}
      \cup {SkipEvent(1500, 1)}

\* Events that differ in each component of the sort key, a skipped event, and
\* an event without a currency.
SortEvents ==
    {SyncEvent(k[1], k[2], k[3], k[4], "CREDIT", "USD", RawNum(Milli(10)),
               RawNull, RawNum(0), RawNum(Milli(10))) :
        k \in {<<1, 1000, 1, 1>>, <<1, 1000, 1, 2>>, <<1, 1000, 2, 1>>,
               <<1, 1000, 2, 2>>, <<1, 2000, 1, 1>>, <<1, 2000, 2, 1>>,
               <<2, 1000, 1, 1>>, <<2, 2000, 1, 1>>}}
      \cup {SkipEvent(1500, 1),
            SyncEvent(1, 1000, 1, 1, "CREDIT", AbsentStr, RawNum(Milli(10)),
                      RawNull, RawNum(0), RawNum(Milli(10)))}

\* One entry over every type, currency and numeric cell that the arithmetic
\* tells apart: ties at two, three and four places on both sides of zero, a
\* difference of exactly the tolerance, unknown cells of each kind.
RowEvents ==
    {SyncEvent(1, 1000, 1, 1, typ, cur, amt, vt, ob, nb) :
        typ \in {"CREDIT", "DEBIT", "debit", "REFUND"},
        cur \in {"SAR", "bhd", "UNKNOWN"},
        amt \in {RawBad, RawNum(Milli(125)), RawNum(Milli(10123)),
                 RawNum(Milli(100000))},
        vt \in {RawAbsent, RawNum(0), RawNum(Milli(1))},
        ob \in {RawNull, RawNum(0), RawNum(Milli(50000)), RawNum(Fine(5))},
        nb \in {RawNull, RawBad, RawNum(Milli(150010)), RawNum(Milli(10127)),
                RawNum(Milli(10128)), RawNum(-Milli(125)), RawNum(-Fine(5))}}

\* The entry before and the entry after it in the same user's chain.
RowBefore ==
    SyncEvent(1, 500, 1, 1, "CREDIT", "UNKNOWN", RawNum(0), RawNull,
              RawNum(Milli(1000)), RawNum(Milli(1000)))

RowAfter ==
    SyncEvent(1, 1500, 2, 1, "CREDIT", "UNKNOWN", RawNum(0), RawNull,
              RawNum(Milli(1000)), RawNum(Milli(1000)))

\* build_ledger and then detect_anomalies on its result, as run_analysis
\* calls them: the ledger, the records, or raised
run_analysis(evs, dflt, tol, threshold10, window) ==
    LET b == build_ledger(evs, dflt, tol)
        d == detect_anomalies(b.rows, b.columns, threshold10, window)
    IN  IF b.raised
        THEN [raised |-> TRUE, ledger |-> <<>>, anomalies |-> <<>>]
        ELSE IF d.raised
        THEN [raised |-> TRUE, ledger |-> b.rows, anomalies |-> <<>>]
        ELSE [raised |-> FALSE, ledger |-> b.rows, anomalies |-> d.rows]

\* A BALANCE_SYNC event with its source and action given, of message 1 and
\* without vat.
AnomEvent(u, ts, i, typ, src, act, cur, amt, ob, nb) ==
    [SyncEvent(u, ts, i, 1, typ, cur, amt, RawNull, ob, nb)
        EXCEPT !.source = src, !.action = act]

\* Events that the passes of detect_anomalies tell apart.  User 1: manual
\* debits of 10 at 1.000 s, 1.999 s, 61.000 s and 61.001 s (gaps below, at and
\* above one second and the sixty seconds of the window) of which the first
\* two share an id; a debit of 11 exactly one second after the first; a
\* debit of 17 (six deviations from 10, 11) whose balances do not
\* reconcile; a manual debit without amount; a manual credit in another
\* currency.  User 2, whose events have no oldBalance key: a manual debit of
\* 10 and an event with an invalid action and neither type, source, currency
\* nor amount.  Amounts are whole numbers, exact as floats.
AnomEvents ==
    {AnomEvent(1, 1000, 1, "DEBIT", "MANUAL_ADJUST", "ADD", "USD",
               RawNum(Milli(10000)), RawNull, RawNull),
     AnomEvent(1, 1999, 1, "DEBIT", "MANUAL_ADJUST", "ADD", "USD",
               RawNum(Milli(10000)), RawNull, RawNull),
     AnomEvent(1, 2000, 2, "DEBIT", "manual", "ADD", "USD",
               RawNum(Milli(11000)), RawNull, RawNull),
     AnomEvent(1, 61000, 3, "DEBIT", "MANUAL_ADJUST", "ADD", "USD",
               RawNum(Milli(10000)), RawNull, RawNull),
     AnomEvent(1, 61001, 4, "DEBIT", "MANUAL_ADJUST", "ADD", "USD",
               RawNum(Milli(10000)), RawNull, RawNull),
     AnomEvent(1, 3000, 5, "DEBIT", "PAYMENT", "ADD", "USD",
               RawNum(Milli(17000)), RawNum(0), RawNum(Milli(5000))),
     AnomEvent(1, 1000, 7, "DEBIT", "MANUAL_ADJUST", "ADD", "USD",
               RawNull, RawNull, RawNull),
     AnomEvent(1, 1000, 1, "CREDIT", "MANUAL_ADJUST", "ADD", "SAR",
               RawNum(Milli(10000)), RawNull, RawNull),
     AnomEvent(2, 1000, 1, "DEBIT", "MANUAL_ADJUST", "ADD", "USD",
               RawNum(Milli(10000)), RawAbsent, RawNull),
     AnomEvent(2, 1500, 2, NoneStr, "", "INVALID_ACTION", NoneStr,
               RawNull, RawAbsent, RawNull)}

Blank ==
    /\ pc = "input"
    /\ ledger = <<>> /\ ledgerColumns = {}
    /\ anomalies = <<>> /\ anomalyColumns = {}
    /\ lines = <<>> /\ tx = {}
    /\ mad_threshold = DefaultMadThreshold
    /\ dup_time_window = DefaultDupTimeWindow

Init ==
    /\ Blank
    /\ events = <<>>
    /\ decimals = DefaultDecimals
    /\ tolerance = DefaultTolerance

InitRow ==
    /\ Blank
    /\ \E e \in RowEvents : events \in {<<e>>, <<RowAfter, e, RowBefore>>}
    /\ decimals \in {DefaultDecimals, 3}
    /\ tolerance \in {DefaultTolerance, Milli(10)}

AddEventOf(pool, max) ==
    /\ pc = "input"
    /\ Len(events) < max
    /\ \E e \in pool : events' = Append(events, e)
    /\ UNCHANGED <<config, pc, ledger, ledgerColumns, anomalies,
                   anomalyColumns, parsing>>

AddEvent == AddEventOf(ChainEvents, MaxEvents)

AddSortEvent == AddEventOf(SortEvents, MaxSortEvents)

AddAnomEvent == AddEventOf(AnomEvents, MaxAnomEvents)

BuildLedger ==
    /\ pc = "input"
    /\ LET r == build_ledger(events, decimals, tolerance)
       IN  /\ pc' = IF r.raised THEN "raised" ELSE "ledger"
           /\ ledger' = r.rows
           /\ ledgerColumns' = r.columns
    /\ UNCHANGED <<events, config, anomalies, anomalyColumns, parsing>>

DetectAnomalies ==
    /\ pc = "ledger"
    /\ LET r == detect_anomalies(ledger, ledgerColumns, mad_threshold,
                                 dup_time_window)
       IN  /\ pc' = IF r.raised THEN "raised" ELSE "done"
           /\ anomalies' = r.rows
           /\ anomalyColumns' = r.columns
    /\ UNCHANGED <<events, config, ledger, ledgerColumns, parsing>>

Next == AddEvent \/ BuildLedger \/ DetectAnomalies

Spec == Init /\ [][Next]_vars

NextSort == AddSortEvent \/ BuildLedger \/ DetectAnomalies

SpecSort == Init /\ [][NextSort]_vars

\* detect_anomalies with the default mad_threshold or with 0
InitAnom ==
    /\ pc = "input"
    /\ events = <<>>
    /\ ledger = <<>> /\ ledgerColumns = {}
    /\ anomalies = <<>> /\ anomalyColumns = {}
    /\ lines = <<>> /\ tx = {}
    /\ decimals = DefaultDecimals
    /\ tolerance = DefaultTolerance
    /\ mad_threshold \in {0, DefaultMadThreshold}
    /\ dup_time_window = DefaultDupTimeWindow

NextAnom == AddAnomEvent \/ BuildLedger \/ DetectAnomalies

SpecAnom == InitAnom /\ [][NextAnom]_vars

NextRow == BuildLedger \/ DetectAnomalies

SpecRow == InitRow /\ [][NextRow]_vars

-----------------------------------------------------------------------------
(* parse_transaction_block.  A line is a sequence of symbols: a key, ":",   *)
(* a quote, "{", "}", or "v" for the rest of a value; the content is the    *)
(* lines joined by "\n".                                                    *)

\* the keys of the lines of a block, by position
KeyNames == <<"k1", "k2", "k3", "k4", "k5">>

IsKey(c) == \E n \in DOMAIN KeyNames : KeyNames[n] = c

\* "transaction: {"
TransactionLine == <<"transaction", ":", "{">>

\* The lines of a block under key k: a plain value, a quoted value holding
\* "}", "{" or "{}", the opening of a nested object, and a closing brace.
BlockLines(k) ==
    {<<k, ":", "v">>,
     <<k, ":", "'", "}", "'">>,
     <<k, ":", "'", "{", "'">>,
     <<k, ":", "'", "{", "}", "'">>,
     <<k, ":", "{">>,
     <<"}">>}

\* "\n".join(lines)
RECURSIVE join_lines(_)
join_lines(ls) ==
    IF ls = <<>> THEN <<>>
    ELSE IF Len(ls) = 1 THEN ls[1]
    ELSE ls[1] \o <<"\n">> \o join_lines(Tail(ls))

\* the index of the "{" of the first "transaction: {", 0 without one
transaction_start(content) ==
    LET found == {i \in 1..(Len(content) - 2) :
                    /\ content[i] = "transaction"
                    /\ content[i + 1] = ":"
                    /\ content[i + 2] = "{"}
    IN  IF found = {} THEN 0
        ELSE (CHOOSE i \in found : \A j \in found : i <= j) + 2

\* the balanced-brace scan from idx with the count brace: the index of the
\* "}" that takes the count to 0, 0 when the content ends first
RECURSIVE brace_scan(_, _, _)
brace_scan(content, idx, brace) ==
    IF idx > Len(content) THEN 0
    ELSE IF content[idx] = "{" THEN brace_scan(content, idx + 1, brace + 1)
    ELSE IF content[idx] = "}"
         THEN IF brace - 1 = 0 THEN idx
              ELSE brace_scan(content, idx + 1, brace - 1)
    ELSE brace_scan(content, idx + 1, brace)

\* str.splitlines()
RECURSIVE splitlines(_)
splitlines(text) ==
    IF text = <<>> THEN <<>>
    ELSE LET breaks == {i \in 1..Len(text) : text[i] = "\n"}
         IN  IF breaks = {} THEN <<text>>
             ELSE LET b == CHOOSE i \in breaks : \A j \in breaks : i <= j
                  IN  <<SubSeq(text, 1, b - 1)>>
                        \o splitlines(SubSeq(text, b + 1, Len(text)))

\* KV_LINE_RE: a key, a colon and a value of at least one character
kv_match(ln) == Len(ln) >= 3 /\ IsKey(ln[1]) /\ ln[2] = ":"

\* coerce_scalar: a value that starts and ends with a quote loses them
coerce_scalar(val) ==
    IF val # <<>> /\ val[1] = "'" /\ val[Len(val)] = "'"
    THEN SubSeq(val, 2, Len(val) - 1)
    ELSE val

\* the loop over tblock: the items of out, a later line of a key replacing
\* an earlier one
parse_items(tblock) ==
    LET matching == {n \in 1..Len(tblock) : kv_match(tblock[n])}
        last == {n \in matching :
                    \A m \in matching :
                        tblock[m][1] = tblock[n][1] => m <= n}
    IN  {<<tblock[n][1],
           coerce_scalar(SubSeq(tblock[n], 3, Len(tblock[n])))>> :
            n \in last}

\* parse_transaction_block(lines): the items of the dict it returns
parse_transaction_block(ls) ==
    LET content == join_lines(ls)
        start == transaction_start(content)
        end == IF start = 0 THEN 0 ELSE brace_scan(content, start, 0)
    IN  IF start = 0 \/ end = 0 THEN {}
        ELSE parse_items(splitlines(SubSeq(content, start + 1, end - 1)))

\* Longest block, in lines after "transaction: {".
MaxBlockLines == 4

InitParse ==
    /\ pc = "lines"
    /\ lines = <<TransactionLine>> /\ tx = {}
    /\ events = <<>>
    /\ ledger = <<>> /\ ledgerColumns = {}
    /\ anomalies = <<>> /\ anomalyColumns = {}
    /\ decimals = DefaultDecimals
    /\ tolerance = DefaultTolerance
    /\ mad_threshold = DefaultMadThreshold
    /\ dup_time_window = DefaultDupTimeWindow

\* the caller collects one more line of the block
AddLine ==
    /\ pc = "lines"
    /\ Len(lines) <= MaxBlockLines
    /\ \E ln \in BlockLines(KeyNames[Len(lines)]) :
            lines' = Append(lines, ln)
    /\ UNCHANGED <<events, config, pc, ledger, ledgerColumns, anomalies,
                   anomalyColumns, tx>>

ParseTransactionBlock ==
    /\ pc = "lines"
    /\ tx' = parse_transaction_block(lines)
    /\ pc' = "parsed"
    /\ UNCHANGED <<events, config, ledger, ledgerColumns, anomalies,
                   anomalyColumns, lines>>

NextParse == AddLine \/ ParseTransactionBlock

SpecParse == InitParse /\ [][NextParse]_vars

-----------------------------------------------------------------------------
(* Properties.  They are stated on what build_ledger was given and what it *)
(* returned, with their own account of the rounding.                       *)

Returned == pc \in {"ledger", "done"}

\* the event a ledger entry was built from
EventOf(r) == events[r.index]

IsNum(raw) == raw.kind = "num"
Val(raw) == IF raw.kind = "num" THEN raw.v ELSE 0

\* the decimal places of an entry's currency
DpsOf(e) ==
    IF Upper(e.currency) = "SAR" THEN 3
    ELSE IF Upper(e.currency) = "BHD" THEN 4
    ELSE decimals

\* r is x rounded to dps places, a tie going away from zero
RoundsHalfAway(x, r, dps) ==
    LET q == Pow10(Prec - dps)
    IN  /\ r % q = 0
        /\ 2 * Abs(r - x) <= q
        /\ 2 * Abs(r - x) = q => Abs(r) > Abs(x)

Rounded(x, dps) ==
    LET q == Pow10(Prec - dps)
    IN  CHOOSE r \in {q * (x \div q), q * (x \div q) + q} :
            RoundsHalfAway(x, r, dps)

\* oldBalance + amount - vat and oldBalance - amount + vat of an event, a
\* missing term counting zero
CreditSum(e) == Val(e.oldBalance) + Val(e.amount) - Val(e.vat)
DebitSum(e) == Val(e.oldBalance) - Val(e.amount) + Val(e.vat)

\* the reported newBalance of an entry, rounded
ActualOf(r) == Rounded(Val(EventOf(r).newBalance), DpsOf(EventOf(r)))

\* C1: a CREDIT entry's expectedNewBalance is oldBalance + amount - vat
\* rounded to the places of its currency (the map's for a currency in it,
\* upper-cased, and decimals otherwise), and a DEBIT entry's is
\* oldBalance - amount + vat rounded likewise.
C1_ExpectedBalance ==
    Returned =>
        \A i \in 1..Len(ledger) :
            LET r == ledger[i]
                e == EventOf(r)
            IN  /\ e.type = "CREDIT" =>
                    /\ r.expectedNewBalance.known
                    /\ RoundsHalfAway(CreditSum(e), r.expectedNewBalance.v,
                                      DpsOf(e))
                /\ e.type = "DEBIT" =>
                    /\ r.expectedNewBalance.known
                    /\ RoundsHalfAway(DebitSum(e), r.expectedNewBalance.v,
                                      DpsOf(e))

\* the spec's example: three places, CREDIT, 10.123, vat 0.001, from 0
C1_Witness ==
    /\ Returned
    /\ \E i \in 1..Len(ledger) :
        LET e == EventOf(ledger[i])
        IN  /\ e.type = "CREDIT" /\ e.currency = "SAR"
            /\ e.amount = RawNum(Milli(10123)) /\ e.vat = RawNum(Milli(1))
            /\ e.oldBalance = RawNum(0)
            /\ ledger[i].expectedNewBalance = Dec(Milli(10122))

\* C2: balanceMismatch is true exactly when the rounded expected and the
\* rounded reported balance are both known and differ by more than
\* tolerance.
C2_MismatchIff ==
    Returned =>
        \A i \in 1..Len(ledger) :
            LET r == ledger[i]
            IN  r.balanceMismatch <=>
                    /\ r.expectedNewBalance.known
                    /\ IsNum(EventOf(r).newBalance)
                    /\ Abs(r.expectedNewBalance.v - ActualOf(r)) > tolerance

\* a difference of exactly tolerance, and no mismatch
C2_Witness ==
    /\ Returned
    /\ \E i \in 1..Len(ledger) :
        LET r == ledger[i]
        IN  /\ r.expectedNewBalance.known
            /\ IsNum(EventOf(r).newBalance)
            /\ Abs(r.expectedNewBalance.v - ActualOf(r)) = tolerance
            /\ tolerance > 0
            /\ ~r.balanceMismatch

\* the filled new balance of an entry, from what the ledger shows of it
FilledOf(r) ==
    IF IsNum(EventOf(r).newBalance) THEN Dec(ActualOf(r))
    ELSE r.expectedNewBalance

HasPredecessor(i) == i > 1 /\ ledger[i - 1].userId = ledger[i].userId

\* C3 as claimed: the oldBalance compared is the reported one.
C3_ContinuityRawOld ==
    Returned =>
        \A i \in 1..Len(ledger) :
            HasPredecessor(i) =>
                LET e == EventOf(ledger[i])
                    f == FilledOf(ledger[i - 1])
                IN  ledger[i].continuityBreak <=>
                        /\ IsNum(e.oldBalance)
                        /\ f.known
                        /\ Abs(Val(e.oldBalance) - f.v) > tolerance

\* C3, amended: for an entry with a predecessor in its user's chain,
\* continuityBreak is true exactly when its oldBalance and the predecessor's
\* filled new balance are known and the oldBalance, rounded to the places of
\* the entry's currency, differs from it by more than tolerance.
C3_ContinuityIff ==
    Returned =>
        \A i \in 1..Len(ledger) :
            HasPredecessor(i) =>
                LET e == EventOf(ledger[i])
                    f == FilledOf(ledger[i - 1])
                IN  ledger[i].continuityBreak <=>
                        /\ IsNum(e.oldBalance)
                        /\ f.known
                        /\ Abs(Rounded(Val(e.oldBalance), DpsOf(e)) - f.v)
                             > tolerance

\* a break against a predecessor whose newBalance is unknown, and so against
\* its expected balance
C3_Witness ==
    /\ Returned
    /\ \E i \in 1..Len(ledger) :
        /\ HasPredecessor(i)
        /\ ~IsNum(EventOf(ledger[i - 1]).newBalance)
        /\ ledger[i].continuityBreak

\* C4: the first entry of every user has continuityBreak false.
C4_FirstEntryNoBreak ==
    Returned =>
        \A i \in 1..Len(ledger) :
            (\A j \in 1..(i - 1) : ledger[j].userId # ledger[i].userId)
                => ~ledger[i].continuityBreak

\* a user's first entry right after another user's entry whose balance its
\* oldBalance does not continue
C4_Witness ==
    /\ Returned
    /\ \E i \in 2..Len(ledger) :
        LET e == EventOf(ledger[i])
            f == FilledOf(ledger[i - 1])
        IN  /\ \A j \in 1..(i - 1) : ledger[j].userId # ledger[i].userId
            /\ IsNum(e.oldBalance) /\ f.known
            /\ Abs(Rounded(Val(e.oldBalance), DpsOf(e)) - f.v) > tolerance
            /\ ~ledger[i].continuityBreak

\* C5: an absent or unparsable amount, vat, oldBalance or newBalance raises
\* nothing; it counts zero in the expected balance and stays unknown in the
\* comparisons: no balanceMismatch and a suggestedAdjustment of 0 without a
\* newBalance, no continuityBreak without an oldBalance.
C5_UnknownNumerics ==
    /\ pc # "raised"
    /\ Returned =>
        \A i \in 1..Len(ledger) :
            LET r == ledger[i]
                e == EventOf(r)
            IN  /\ ~IsNum(e.newBalance) =>
                    ~r.balanceMismatch /\ r.suggestedAdjustment = 0
                /\ ~IsNum(e.oldBalance) => ~r.continuityBreak
                /\ Upper(e.type) = "CREDIT" =>
                    /\ r.expectedNewBalance.known
                    /\ RoundsHalfAway(CreditSum(e), r.expectedNewBalance.v,
                                      DpsOf(e))
                /\ Upper(e.type) = "DEBIT" =>
                    /\ r.expectedNewBalance.known
                    /\ RoundsHalfAway(DebitSum(e), r.expectedNewBalance.v,
                                      DpsOf(e))

\* a CREDIT without amount, oldBalance and newBalance, after an entry of known
\* balance: an expected balance of minus the vat, and no flag
C5_Witness ==
    /\ Returned
    /\ \E i \in 1..Len(ledger) :
        LET r == ledger[i]
            e == EventOf(r)
        IN  /\ HasPredecessor(i) /\ FilledOf(ledger[i - 1]).known
            /\ e.type = "CREDIT"
            /\ ~IsNum(e.amount) /\ ~IsNum(e.oldBalance) /\ ~IsNum(e.newBalance)
            /\ r.expectedNewBalance.known /\ r.expectedNewBalance.v < 0
            /\ ~r.balanceMismatch /\ ~r.continuityBreak

\* C6: the expected balance and the reported newBalance are rounded to the
\* places of the currency with ties away from zero, below zero as above it,
\* and an unknown value stays unknown.  The rounded newBalance shows in the
\* suggestedAdjustment of a mismatched entry and in the balance the next
\* entry of the user is compared with.
C6_HalfAwayFromZero ==
    Returned =>
        \A i \in 1..Len(ledger) :
            LET r == ledger[i]
                e == EventOf(r)
                dps == DpsOf(e)
            IN  /\ r.expectedNewBalance.known <=>
                    Upper(e.type) \in {"CREDIT", "DEBIT"}
                /\ r.expectedNewBalance.known =>
                    RoundsHalfAway(IF Upper(e.type) = "CREDIT"
                                   THEN CreditSum(e) ELSE DebitSum(e),
                                   r.expectedNewBalance.v, dps)
                /\ r.balanceMismatch =>
                    RoundsHalfAway(Val(e.newBalance),
                                   r.expectedNewBalance.v
                                     - r.suggestedAdjustment, dps)
                /\ (i < Len(ledger) /\ HasPredecessor(i + 1)) =>
                    LET f == ledger[i + 1].prevNewBalanceFilled
                    IN  /\ IsNum(e.newBalance) =>
                            f.known /\ RoundsHalfAway(Val(e.newBalance), f.v,
                                                      dps)
                        /\ (~IsNum(e.newBalance)
                              /\ ~r.expectedNewBalance.known) => ~f.known

\* at two places, an expected balance of -0.125 and a reported one of -0.125
\* both become -0.13
C6_Witness ==
    /\ Returned
    /\ \E i \in 1..(Len(ledger) - 1) :
        LET r == ledger[i]
            e == EventOf(r)
        IN  /\ HasPredecessor(i + 1)
            /\ DpsOf(e) = 2
            /\ e.type = "DEBIT" /\ DebitSum(e) = -Milli(125)
            /\ r.expectedNewBalance = Dec(-Milli(130))
            /\ e.newBalance = RawNum(-Milli(125))
            /\ ledger[i + 1].prevNewBalanceFilled = Dec(-Milli(130))

\* C7: suggestedAdjustment is expected - actual rounded to the places of the
\* currency when balanceMismatch is true, so that the rounded newBalance plus
\* it is the expected balance, and 0 when balanceMismatch is false.
C7_SuggestedAdjustment ==
    Returned =>
        \A i \in 1..Len(ledger) :
            LET r == ledger[i]
            IN  IF r.balanceMismatch
                THEN /\ RoundsHalfAway(r.expectedNewBalance.v - ActualOf(r),
                                       r.suggestedAdjustment,
                                       DpsOf(EventOf(r)))
                     /\ ActualOf(r) + r.suggestedAdjustment
                          = r.expectedNewBalance.v
                ELSE r.suggestedAdjustment = 0

\* the spec's example: expected 150.00, reported 150.01, tolerance 0.005
C7_Witness ==
    /\ Returned
    /\ tolerance = Milli(5)
    /\ \E i \in 1..Len(ledger) :
        LET r == ledger[i]
            e == EventOf(r)
        IN  /\ e.type = "CREDIT" /\ DpsOf(e) = 2
            /\ e.amount = RawNum(Milli(100000)) /\ e.vat = RawNum(0)
            /\ e.oldBalance = RawNum(Milli(50000))
            /\ e.newBalance = RawNum(Milli(150010))
            /\ r.expectedNewBalance = Dec(Milli(150000))
            /\ r.balanceMismatch
            /\ r.suggestedAdjustment = -Milli(10)

OverdraftReasonFor(expected_neg, actual_neg) ==
    IF expected_neg /\ actual_neg
    THEN "expected balance < 0, actual balance < 0"
    ELSE IF expected_neg THEN "expected<0"
    ELSE IF actual_neg THEN "actual<0"
    ELSE NoneStr

\* C8 as claimed: the reported newBalance counts as negative as it was
\* reported.
C8_OverdraftRawActual ==
    Returned =>
        \A i \in 1..Len(ledger) :
            LET r == ledger[i]
                e == EventOf(r)
            IN  /\ r.overdraft <=> r.overdraftReason # NoneStr
                /\ r.overdraftReason =
                     OverdraftReasonFor(
                         r.expectedNewBalance.known
                           /\ r.expectedNewBalance.v < 0,
                         IsNum(e.newBalance) /\ Val(e.newBalance) < 0)

\* C8, amended: overdraft is true exactly when overdraftReason is not null;
\* overdraftReason is "expected<0" when only the expected balance is known
\* and negative, "actual<0" when only the reported newBalance is known and,
\* rounded to the places of the currency, negative, the combined message when
\* both are, and null otherwise.
C8_Overdraft ==
    Returned =>
        \A i \in 1..Len(ledger) :
            LET r == ledger[i]
                e == EventOf(r)
            IN  /\ r.overdraft <=> r.overdraftReason # NoneStr
                /\ r.overdraftReason =
                     OverdraftReasonFor(
                         r.expectedNewBalance.known
                           /\ r.expectedNewBalance.v < 0,
                         IsNum(e.newBalance) /\ ActualOf(r) < 0)

\* both balances negative: the combined message
C8_Witness ==
    /\ Returned
    /\ \E i \in 1..Len(ledger) :
        LET r == ledger[i]
        IN  /\ r.expectedNewBalance.known /\ r.expectedNewBalance.v < 0
            /\ IsNum(EventOf(r).newBalance) /\ ActualOf(r) < 0
            /\ r.overdraft
            /\ r.overdraftReason = "expected balance < 0, actual balance < 0"

\* (userId, timestamp, id, messageId) of a before or equal to that of b
KeyLeq(a, b) ==
    LET ka == <<a.userId, a.timestamp, a.id, a.messageId>>
        kb == <<b.userId, b.timestamp, b.id, b.messageId>>
    IN  \/ ka = kb
        \/ \E n \in 1..4 : ka[n] < kb[n] /\ \A m \in 1..(n - 1) : ka[m] = kb[m]

\* C9: the ledger holds exactly one entry per BALANCE_SYNC event, with that
\* event's cells, none for any other event, in ascending (userId, timestamp,
\* id, messageId) order whatever the order of the events.
C9_OneEntryPerSyncSorted ==
    Returned =>
        /\ \A n \in 1..Len(events) :
            Cardinality({k \in 1..Len(ledger) : ledger[k].index = n})
              = IF events[n].eventType = "BALANCE_SYNC" THEN 1 ELSE 0
        /\ \A k \in 1..Len(ledger) :
            /\ ledger[k].index \in 1..Len(events)
            /\ \A f \in KeyFields \cup StrFields :
                ledger[k][f] = EventOf(ledger[k])[f]
            /\ \A f \in NumFields :
                /\ IsNum(EventOf(ledger[k])[f]) <=> ledger[k][f].kind = "float"
                /\ Val(EventOf(ledger[k])[f]) = ledger[k][f].v
        /\ \A k \in 1..Len(ledger), l \in 1..Len(ledger) :
            k < l => KeyLeq(ledger[k], ledger[l])

\* two entries that differ in messageId alone, given in descending order
\* beside a skipped event, come out ascending
C9_Witness ==
    /\ Returned
    /\ \E n \in 1..Len(events) : events[n].eventType # "BALANCE_SYNC"
    /\ Len(ledger) = 2
    /\ ledger[1].index > ledger[2].index
    /\ ledger[1].userId = ledger[2].userId
    /\ ledger[1].timestamp = ledger[2].timestamp
    /\ ledger[1].id = ledger[2].id
    /\ ledger[1].messageId < ledger[2].messageId

LedgerDerivedColumns ==
    {"expectedNewBalance", "balanceMismatch", "overdraft", "overdraftReason",
     "suggestedAdjustment", "continuityBreak"}

\* C10: on an event list without a BALANCE_SYNC event (the empty list among
\* them) nothing raises, the ledger is empty and has its derived columns, and
\* the anomaly table is empty and has its eleven columns.
C10_EmptySchemaStable ==
    (\A n \in 1..Len(events) : events[n].eventType # "BALANCE_SYNC") =>
        /\ pc # "raised"
        /\ Returned =>
            ledger = <<>> /\ LedgerDerivedColumns \subseteq ledgerColumns
        /\ pc = "done" =>
            /\ anomalies = <<>>
            /\ anomalyColumns =
                 {"timestamp", "userId", "id", "type", "source", "action",
                  "amount", "oldBalance", "newBalance", "anomalyType",
                  "details"}

\* a type that is neither CREDIT nor DEBIT in any case, the absent one included
MalformedType(e) == Upper(e.type) \notin {"CREDIT", "DEBIT"}

\* a currency that is absent, null or the placeholder of an absent one
MalformedCurrency(e) == e.currency \in {AbsentStr, NoneStr, "UNKNOWN"}

\* C11: build_ledger never aborts on a malformed type or currency; the entry
\* of such an event has an unknown expectedNewBalance, balanceMismatch false
\* and suggestedAdjustment 0, and the other events of the batch still have
\* their entries.
C11_MalformedYieldsUnknown ==
    /\ pc # "raised"
    /\ Returned =>
        /\ \A n \in 1..Len(events) :
                events[n].eventType = "BALANCE_SYNC" =>
                    \E k \in 1..Len(ledger) : ledger[k].index = n
        /\ \A k \in 1..Len(ledger) :
                (MalformedType(EventOf(ledger[k]))
                   \/ MalformedCurrency(EventOf(ledger[k]))) =>
                    /\ ~ledger[k].expectedNewBalance.known
                    /\ ~ledger[k].balanceMismatch
                    /\ ledger[k].suggestedAdjustment = 0

\* C12: the ledger build_ledger returns has the columns of the events and the
\* six derived columns, and none that carries a filled new balance.
C12_FilledNotExposed ==
    (Returned /\ ledger # <<>>) =>
        /\ ledgerColumns
             \subseteq (FrameColumns(events) \cup LedgerDerivedColumns)
        /\ "prevNewBalanceFilled" \notin ledgerColumns
        /\ "_newBalanceFilled" \notin ledgerColumns

-----------------------------------------------------------------------------
(* Properties of detect_anomalies.  They are stated on the ledger it was    *)
(* given, which build_ledger left in the order of (userId, timestamp, id),  *)
(* and on the records it returned.                                          *)

Detected == pc = "done"

Entries == 1..Len(ledger)

\* a record or entry a has the nine copied cells of the entry r
SameCells(a, r) ==
    /\ a.timestamp = r.timestamp /\ a.userId = r.userId /\ a.id = r.id
    /\ a.type = r.type /\ a.source = r.source /\ a.action = r.action
    /\ a.amount = r.amount /\ a.oldBalance = r.oldBalance
    /\ a.newBalance = r.newBalance

\* the records of one kind and detail that copy entry i
Emitted(kind, details, i) ==
    Cardinality({k \in 1..Len(anomalies) :
                    /\ anomalies[k].anomalyType = kind
                    /\ anomalies[k].details = details
                    /\ SameCells(anomalies[k], ledger[i])})

\* the entries no record can tell from entry i
Twins(i) == {j \in Entries : SameCells(ledger[j], ledger[i])}

\* the records of one kind and detail are those of the entries i with
\* flag[i], one for each
EmittedFor(kind, details, flag) ==
    /\ \A i \in Entries :
            Emitted(kind, details, i)
              = Cardinality({j \in Twins(i) : flag[j]})
    /\ \A k \in 1..Len(anomalies) :
            (anomalies[k].anomalyType = kind
               /\ anomalies[k].details = details) =>
                \E i \in Entries :
                    flag[i] /\ SameCells(anomalies[k], ledger[i])

HasType(i) == EventOf(ledger[i]).type \notin {AbsentStr, NoneStr}
HasAmount(i) == IsNum(EventOf(ledger[i]).amount)
AmountOf(i) == Val(EventOf(ledger[i]).amount)

\* the entries of the (userId, type) group of entry i that have an amount
MadGroup(i) ==
    {j \in Entries :
        /\ HasType(i) /\ HasAmount(j)
        /\ ledger[j].userId = ledger[i].userId
        /\ EventOf(ledger[j]).type = EventOf(ledger[i]).type}

\* the k-th smallest of the values val[j], j in G
Kth(G, val, k) ==
    CHOOSE x \in {val[j] : j \in G} :
        /\ Cardinality({j \in G : val[j] <= x}) >= k
        /\ Cardinality({j \in G : val[j] < x}) < k

\* twice the median of the values val[j], j in G
TwiceMedian(G, val) ==
    LET n == Cardinality(G)
    IN  Kth(G, val, (n + 1) \div 2) + Kth(G, val, n \div 2 + 1)

\* twice the distance of an amount of entry i's group from the group's median
TwiceDeviation(i) ==
    LET G == MadGroup(i)
        amt == [l \in G |-> AmountOf(l)]
        med2 == TwiceMedian(G, amt)
    IN  [j \in G |-> Abs(2 * amt[j] - med2)]

\* four times the median absolute deviation of entry i's group
FourMad(i) == TwiceMedian(MadGroup(i), TwiceDeviation(i))

\* |amount - median| / MAD >= mad_threshold, mad_threshold in tenths
MadScoreReached(i) ==
    /\ HasAmount(i) /\ MadGroup(i) # {}
    /\ LET dev == TwiceDeviation(i)
           mad4 == TwiceMedian(MadGroup(i), dev)
       IN  mad4 # 0 /\ 20 * dev[i] >= mad_threshold * mad4

\* C13: an entry has a MADSpike record exactly when the median absolute
\* deviation of the amounts of its (userId, type) group is defined and not
\* zero and |amount - median| / MAD >= mad_threshold; an entry of a group
\* with one amount only never has one, whatever mad_threshold is.
C13_MadSpikeIff ==
    Detected =>
        /\ EmittedFor("MADSpike", "", [i \in Entries |-> MadScoreReached(i)])
        /\ \A i \in Entries :
                Cardinality({AmountOf(j) : j \in MadGroup(i)}) <= 1 =>
                    Emitted("MADSpike", "", i) = 0

\* a spike whose score is exactly the threshold of 6, beside two entries of
\* its group that are none
C13_Witness ==
    /\ Detected
    /\ mad_threshold = DefaultMadThreshold
    /\ \E i \in Entries :
        /\ Emitted("MADSpike", "", i) = 1
        /\ Cardinality(MadGroup(i)) = 3
        /\ 20 * TwiceDeviation(i)[i] = mad_threshold * FourMad(i)
        /\ \A j \in MadGroup(i) \ {i} : Emitted("MADSpike", "", j) = 0

\* the entries with the (userId, id) pair of entry i
SamePair(i) ==
    {j \in Entries :
        ledger[j].userId = ledger[i].userId /\ ledger[j].id = ledger[i].id}

\* the DuplicateTxId records with the (userId, id) pair of entry i
DuplicateRecords(i) ==
    {k \in 1..Len(anomalies) :
        /\ anomalies[k].anomalyType = "DuplicateTxId"
        /\ anomalies[k].userId = ledger[i].userId
        /\ anomalies[k].id = ledger[i].id}

\* C14: a (userId, id) pair on k >= 2 entries has k DuplicateTxId records, one
\* for each of the entries, the first included; a pair on one entry has none.
C14_DuplicateAll ==
    Detected =>
        /\ \A i \in Entries :
                Cardinality(DuplicateRecords(i))
                  = IF Cardinality(SamePair(i)) >= 2
                    THEN Cardinality(SamePair(i)) ELSE 0
        /\ EmittedFor("DuplicateTxId", "",
                      [i \in Entries |-> Cardinality(SamePair(i)) >= 2])

\* two entries of user 1 with one id, both with their record, and an entry of
\* user 2 with the same id and none
C14_Witness ==
    /\ Detected
    /\ \E i, j, l \in Entries :
        /\ i < j /\ SamePair(i) = {i, j}
        /\ ledger[i].timestamp < ledger[j].timestamp
        /\ Emitted("DuplicateTxId", "", i) = 1
        /\ Emitted("DuplicateTxId", "", j) = 1
        /\ ledger[l].id = ledger[i].id /\ ledger[l].userId # ledger[i].userId
        /\ Emitted("DuplicateTxId", "", l) = 0

\* the entries before entry i, in the ledger's order, with its userId, type
\* and amount
SameDeductionBefore(i) ==
    {j \in 1..(i - 1) :
        /\ HasType(i) /\ HasAmount(i) /\ HasAmount(j)
        /\ ledger[j].userId = ledger[i].userId
        /\ EventOf(ledger[j]).type = EventOf(ledger[i]).type
        /\ AmountOf(j) = AmountOf(i)}

\* entry i is a manual DEBIT whose immediate predecessor of the same userId,
\* type and amount is at most dup_time_window seconds older
RapidDue(i) ==
    /\ EventOf(ledger[i]).type = "DEBIT"
    /\ ContainsManual(EventOf(ledger[i]).source)
    /\ SameDeductionBefore(i) # {}
    /\ LET p == CHOOSE j \in SameDeductionBefore(i) :
                    \A l \in SameDeductionBefore(i) : l <= j
       IN  ledger[i].timestamp - ledger[p].timestamp
             <= dup_time_window * MsPerSecond

\* the RapidManualDeduction records with the userId, type and amount of
\* entry i
RapidRecords(i) ==
    {k \in 1..Len(anomalies) :
        /\ anomalies[k].anomalyType = "RapidManualDeduction"
        /\ anomalies[k].userId = ledger[i].userId
        /\ anomalies[k].type = ledger[i].type
        /\ anomalies[k].amount = ledger[i].amount}

\* C15: an entry has a RapidManualDeduction record exactly when it is a DEBIT
\* whose source contains MANUAL and the entry just before it among those of
\* its userId, type and amount is at most dup_time_window seconds older (a
\* gap of exactly dup_time_window counts); the first entry of such a group has
\* none, so a group has fewer records than entries.
C15_RapidIff ==
    Detected =>
        /\ EmittedFor("RapidManualDeduction", "",
                      [i \in Entries |-> RapidDue(i)])
        /\ \A i \in Entries :
                Cardinality(RapidRecords(i))
                  < Cardinality({j \in Entries :
                                   /\ ledger[j].userId = ledger[i].userId
                                   /\ ledger[j].type = ledger[i].type
                                   /\ ledger[j].amount = ledger[i].amount})

\* two manual debits of 10 exactly dup_time_window apart, a debit of 11
\* between them: the later debit of 10 alone has a record
C15_Witness ==
    /\ Detected
    /\ \E i, l, j \in Entries :
        /\ i < l /\ l < j
        /\ SameDeductionBefore(j) = {i}
        /\ ledger[j].timestamp - ledger[i].timestamp
             = dup_time_window * MsPerSecond
        /\ ContainsManual(ledger[l].source) /\ ledger[l].type = "DEBIT"
        /\ ledger[l].userId = ledger[i].userId
        /\ Emitted("RapidManualDeduction", "", i) = 0
        /\ Emitted("RapidManualDeduction", "", l) = 0
        /\ Emitted("RapidManualDeduction", "", j) = 1

\* an entry of the same user comes before entry i and is less than a second
\* older
BurstDue(i) ==
    \E j \in 1..(i - 1) :
        /\ ledger[j].userId = ledger[i].userId
        /\ ledger[i].timestamp - ledger[j].timestamp < MsPerSecond

\* the Burst records of the user of entry i
BurstRecords(i) ==
    {k \in 1..Len(anomalies) :
        /\ anomalies[k].anomalyType = "Burst"
        /\ anomalies[k].userId = ledger[i].userId}

\* C16: an entry has a Burst record exactly when the entry before it among
\* its user's, by timestamp, is less than one second older (the same instant
\* counts, exactly one second does not); a user's first entry has none, so a
\* user has fewer Burst records than entries, whatever the other users do.
C16_BurstIff ==
    Detected =>
        /\ EmittedFor("Burst", "", [i \in Entries |-> BurstDue(i)])
        /\ \A i \in Entries :
                Cardinality(BurstRecords(i))
                  < Cardinality({j \in Entries :
                                   ledger[j].userId = ledger[i].userId})

\* three entries of one user, the second at the instant of the first and the
\* third exactly one second later: the second alone has a record
C16_Witness ==
    /\ Detected
    /\ Len(ledger) = 3
    /\ \A i \in Entries : ledger[i].userId = ledger[1].userId
    /\ ledger[2].timestamp = ledger[1].timestamp
    /\ ledger[3].timestamp = ledger[2].timestamp + MsPerSecond
    /\ Emitted("Burst", "", 1) = 0
    /\ Emitted("Burst", "", 2) = 1
    /\ Emitted("Burst", "", 3) = 0

\* the currency values on the entries of the user of entry i
CurrenciesOfUser(i) ==
    {EventOf(ledger[j]).currency :
        j \in {l \in Entries :
                 /\ ledger[l].userId = ledger[i].userId
                 /\ EventOf(ledger[l]).currency \notin {AbsentStr, NoneStr}}}

\* the CurrencyMismatch records of the user of entry i
CurrencyRecords(i) ==
    {k \in 1..Len(anomalies) :
        /\ anomalies[k].anomalyType = "CurrencyMismatch"
        /\ anomalies[k].userId = ledger[i].userId}

\* C17: a user whose entries carry more than one currency value has a
\* CurrencyMismatch record for every entry; a user whose entries carry one
\* has none.
C17_CurrencyMismatchAll ==
    Detected =>
        /\ \A i \in Entries :
                Cardinality(CurrencyRecords(i))
                  = IF Cardinality(CurrenciesOfUser(i)) > 1
                    THEN Cardinality({j \in Entries :
                                        ledger[j].userId = ledger[i].userId})
                    ELSE 0
        /\ EmittedFor("CurrencyMismatch", "",
                      [i \in Entries |->
                          Cardinality(CurrenciesOfUser(i)) > 1])

\* a user with two currencies, each entry with its record, beside a user
\* with one currency and no record
C17_Witness ==
    /\ Detected
    /\ \E i, j, l \in Entries :
        /\ i # j /\ ledger[i].userId = ledger[j].userId
        /\ ledger[i].currency = "USD" /\ ledger[j].currency = "SAR"
        /\ Emitted("CurrencyMismatch", "", i) = 1
        /\ Emitted("CurrencyMismatch", "", j) = 1
        /\ ledger[l].userId # ledger[i].userId
        /\ ledger[l].currency = "USD"
        /\ Emitted("CurrencyMismatch", "", l) = 0

\* the passes, each with the kind and the detail of its records; MissingField
\* passes once for each of type, source and action
PassTags ==
    {<<"InvalidAction", "">>, <<"MADSpike", "">>, <<"DuplicateTxId", "">>,
     <<"MissingField", "type">>, <<"MissingField", "source">>,
     <<"MissingField", "action">>, <<"RapidManualDeduction", "">>,
     <<"ContinuityBreak", "">>, <<"BalanceMismatch", "">>, <<"Burst", "">>,
     <<"CurrencyMismatch", "">>}

\* the pass p flags entry i
PassFlags(p, i) ==
    CASE p[1] = "InvalidAction" -> ContainsInvalid(EventOf(ledger[i]).action)
      [] p[1] = "MADSpike" -> MadScoreReached(i)
      [] p[1] = "DuplicateTxId" -> Cardinality(SamePair(i)) >= 2
      [] p[1] = "MissingField" -> IsBlank(EventOf(ledger[i])[p[2]])
      [] p[1] = "RapidManualDeduction" -> RapidDue(i)
      [] p[1] = "ContinuityBreak" -> ledger[i].continuityBreak
      [] p[1] = "BalanceMismatch" -> ledger[i].balanceMismatch
      [] p[1] = "Burst" -> BurstDue(i)
      [] p[1] = "CurrencyMismatch" -> Cardinality(CurrenciesOfUser(i)) > 1

\* C18: the table holds one record for every pass that flags an entry, so k
\* records for an entry that k passes flag, MissingField counting once for
\* each blank field; every record copies the timestamp, userId and id of an
\* entry a pass flags; the records are in ascending order of timestamp.
C18_ConcatenatedSorted ==
    Detected =>
        /\ \A i \in Entries :
                Cardinality({k \in 1..Len(anomalies) :
                                SameCells(anomalies[k], ledger[i])})
                  = Cardinality({jp \in Twins(i) \X PassTags :
                                    PassFlags(jp[2], jp[1])})
        /\ \A k \in 1..Len(anomalies) :
                \E i \in Entries :
                    /\ SameCells(anomalies[k], ledger[i])
                    /\ PassFlags(<<anomalies[k].anomalyType,
                                   anomalies[k].details>>, i)
        /\ \A k, l \in 1..Len(anomalies) :
                k < l => anomalies[k].timestamp <= anomalies[l].timestamp

\* an entry with the records of four passes, and a Burst record of an
\* earlier entry standing before a DuplicateTxId record of a later one
\* although its pass comes later
C18_Witness ==
    /\ Detected
    /\ \E i \in Entries :
        /\ Emitted("DuplicateTxId", "", i) = 1
        /\ Emitted("RapidManualDeduction", "", i) = 1
        /\ Emitted("Burst", "", i) = 1
        /\ Emitted("CurrencyMismatch", "", i) = 1
    /\ \E k, l \in 1..Len(anomalies) :
        /\ k < l
        /\ anomalies[k].anomalyType = "Burst"
        /\ anomalies[l].anomalyType = "DuplicateTxId"
        /\ anomalies[k].timestamp < anomalies[l].timestamp

\* the users of the BALANCE_SYNC events, and the events of one user in the
\* order of the list
UsersOf(evs) ==
    {evs[n].userId : n \in {m \in 1..Len(evs) :
                               evs[m].eventType = "BALANCE_SYNC"}}

UserEvents(evs, u) == SelectSeq(evs, LAMBDA e : e.userId = u)

\* the key and the derived fields of a ledger entry
DerivedOf(r) ==
    [f \in KeyFields \cup LedgerDerivedColumns |-> r[f]]

\* what identifies an anomaly record
FlagOf(a) == <<a.timestamp, a.userId, a.id, a.anomalyType, a.details>>

\* C19: the run on the whole event list and the runs on each user's events
\* agree: one raises exactly when one of the others does, and otherwise the
\* entries of each user have the same keys and derived fields, in the same
\* order, and the anomaly records are the same set.
C19_UserPartitionable ==
    pc \in {"done", "raised"} =>
        LET part == [u \in UsersOf(events) |->
                        run_analysis(UserEvents(events, u), decimals,
                                     tolerance, mad_threshold,
                                     dup_time_window)]
        IN  /\ pc = "raised" <=> \E u \in UsersOf(events) : part[u].raised
            /\ pc = "done" =>
                /\ \A u \in UsersOf(events) :
                        LET mine == SelectSeq(ledger,
                                             LAMBDA r : r.userId = u)
                        IN  /\ Len(mine) = Len(part[u].ledger)
                            /\ \A k \in 1..Len(mine) :
                                    DerivedOf(mine[k])
                                      = DerivedOf(part[u].ledger[k])
                /\ {FlagOf(anomalies[k]) : k \in 1..Len(anomalies)}
                     = UNION {{FlagOf(part[u].anomalies[k]) :
                                 k \in 1..Len(part[u].anomalies)} :
                              u \in UsersOf(events)}

-----------------------------------------------------------------------------
(* Properties of parse_transaction_block, stated on the lines after         *)
(* "transaction: {" with the braces of quoted values set aside.             *)

Parsed == pc = "parsed"

\* symbol i of a line stands inside a quoted value
InQuotes(ln, i) ==
    /\ ln[i] # "'"
    /\ Cardinality({j \in 1..(i - 1) : ln[j] = "'"}) % 2 = 1

\* the braces a line opens less those it closes, quoted values set aside
BraceDelta(ln) ==
    Cardinality({i \in 1..Len(ln) : ln[i] = "{" /\ ~InQuotes(ln, i)})
      - Cardinality({i \in 1..Len(ln) : ln[i] = "}" /\ ~InQuotes(ln, i)})

\* the depth of nesting after line n, 1 after "transaction: {"
RECURSIVE DepthAfter(_)
DepthAfter(n) ==
    IF n <= 1 THEN 1 ELSE DepthAfter(n - 1) + BraceDelta(lines[n])

\* the line with the closing brace of the transaction object, 0 without one
ClosingLine ==
    LET closing == {n \in 2..Len(lines) : DepthAfter(n) = 0}
    IN  IF closing = {} THEN 0
        ELSE CHOOSE n \in closing : \A m \in closing : n <= m

\* the value of a line without its enclosing quotes
ValueOf(ln) ==
    LET val == SubSeq(ln, 3, Len(ln))
    IN  IF val[1] = "'" THEN SubSeq(val, 2, Len(val) - 1) ELSE val

\* C20: the scan ends at the closing brace of the transaction object itself,
\* whatever braces its quoted values hold: the result has every key/value
\* line of the object, with its value, and nothing else; a block without
\* that closing brace gives an empty result.
C20_ScanRobustToQuotedBraces ==
    Parsed =>
        tx = IF ClosingLine = 0 THEN {}
             ELSE {<<lines[n][1], ValueOf(lines[n])>> :
                     n \in {m \in 2..(ClosingLine - 1) : Len(lines[m]) >= 3}}

====
